---- MODULE Spec2Model ----
(***************************************************************************)
(* GEPAOptimizer (lab5_mlflow/gepa_optimizer.py): the candidate pool, the  *)
(* Pareto parent selection, the mutate / evaluate / accept loop, the       *)
(* rollout accounting and the pruning of the pool.                         *)
(*                                                                         *)
(* Scores are floats in [0,1] in the program; here a score is one of the   *)
(* grid points 0..MaxScore (score * MaxScore), and a mean is kept exact as *)
(* the pair sum/length.  The mean of an empty list is NaN, as np.mean      *)
(* gives: every comparison with it is false.                               *)
(* Pool indices are Python's: 0-based; None is written -1.                 *)
(***************************************************************************)
EXTENDS Integers, Sequences, FiniteSets, TLC

\* ---- bounds of the model ----
MaxBudget == 3
MaxVal == 2
MaxTrain == 2
MaxScore == 1
MaxCand == 1
MaxRows == 2
MaxLabels == 2

\* ---- program constants ----
\* ToastNeo4jPipeline.module_sequence has six stages
NumStages == 6
\* _get_ancestor_prompts: while cur is not None and len(prompts) < 5
MaxAncestors == 5

None == -1

Scores == 0..MaxScore
MinibatchSizes == 1..2
MergeFrequencies == 1..2

VARIABLES
    \* GEPAOptimizer fields
    candidate_pool, parent_indices, scores_matrix, iteration, rollouts_used,
    \* the arguments of the run: optimize(train_data, val_data, budget) and params
    budget, n_val, n_train, minibatch_size, max_candidates, merge_frequency,
    \* whether the output of the pipeline under optimization depends on its
    \* stages' instruction texts (ToastNeo4jPipeline's does not)
    prompt_sensitive,
    \* position in optimize and its locals
    pc, parent_idx, module_idx, minibatch, scores_before, scores_after,
    ancestor_prompts, new_candidate, best_idx,
    \* the exception that ended optimize, "none" while there is none
    error,
    \* history of the run (not program state): every candidate ever appended,
    \* the evaluations performed, the iterations' minibatch sizes, the accepted
    \* mutants, the pool as it was handed to the last prune, and the validation
    \* examples whose run or scoring raised in the last validation pass
    appended, evals, sum_minibatch, n_accepted, pre_prune, val_raised,
    \* history: the stage positions targeted by the iterations so far
    targeted,
    \* a call of _evaluate_output(output, expected) and the score it returned
    output, expected, score,
    \* a call of ToastNeo4jPipeline.execute_with_traces: the stages that raise
    \* when they are executed, the loop's position, its traces and its current
    stage_raises, exec_pc, traces, current

params == <<budget, n_val, n_train, minibatch_size, max_candidates, merge_frequency,
            prompt_sensitive>>
locals == <<parent_idx, module_idx, minibatch, scores_before, scores_after,
            ancestor_prompts, new_candidate, best_idx, error>>
fields == <<candidate_pool, parent_indices, scores_matrix, iteration, rollouts_used>>
history == <<appended, evals, sum_minibatch, n_accepted, pre_prune, val_raised>>
harness == <<output, expected, score, stage_raises, exec_pc, traces, current>>
vars == <<fields, params, pc, locals, history, targeted, harness>>

\* ---------------------------------------------------------------------------
\* helpers
\* ---------------------------------------------------------------------------
Min(a, b) == IF a < b THEN a ELSE b

RECURSIVE SumSeq(_)
SumSeq(s) == IF s = <<>> THEN 0 ELSE Head(s) + SumSeq(Tail(s))

RECURSIVE SumFun(_, _)
SumFun(f, S) ==
    IF S = {} THEN 0
    ELSE LET x == CHOOSE y \in S : TRUE IN f[x] + SumFun(f, S \ {x})

\* np.mean of a list: the exact mean sum/len, NaN for an empty list
NaN == <<0, 0>>
MeanSeq(s) == IF Len(s) = 0 THEN NaN ELSE <<SumSeq(s), Len(s)>>
\* the scores of a minibatch pass, one per example of the minibatch
MeanOver(f) == IF DOMAIN f = {} THEN NaN ELSE <<SumFun(f, DOMAIN f), Cardinality(DOMAIN f)>>

\* a > b on floats: false when either is NaN
MeanGT(a, b) == a # NaN /\ b # NaN /\ a[1] * b[2] > b[1] * a[2]

\* line 242: float(np.mean(scores_after)) > float(np.mean(scores_before))
AcceptTest_mut(after, before) == ~ MeanGT(MeanOver(before), MeanOver(after))
AcceptTest(after, before) == MeanGT(MeanOver(after), MeanOver(before))

\* the module names, in module_sequence order
module_sequence == [k \in 1..NumStages |-> k]

\* the seed pipeline: every stage at its default prompt, version 1
SeedCandidate ==
    [id |-> 0, modules |-> [m \in 1..NumStages |-> [prompt |-> 0, version |-> 1]]]

NoCandidate == [id |-> None, modules |-> <<>>]

\* _reflect_and_propose: the text the reflection returns.  Instruction texts are
\* numbered: 0 is the seed's text of every stage, and the text proposed for a
\* mutant is numbered like the mutant (the pool never holds two mutants of one
\* number), so the candidates of the pool have different texts where they were
\* mutated
ProposedPrompt == Len(appended)

\* new_candidate = deepcopy(parent); its targeted stage gets the proposed prompt
\* and the next version
NewCandidate_mut(parent, module_name, new_prompt) ==
    [id |-> Len(appended),
     modules |-> [k \in DOMAIN parent.modules |->
         [prompt |-> IF k = module_name THEN new_prompt ELSE parent.modules[k].prompt,
          version |-> parent.modules[k].version + 1]]]
NewCandidate(parent, module_name, new_prompt) ==
    [id |-> Len(appended),
     modules |-> [parent.modules EXCEPT
         ![module_name] = [prompt |-> new_prompt,
                           version |-> parent.modules[module_name].version + 1]]]

\* the outcome of running a candidate on one example and scoring its output: a
\* score, or an exception
Raises == MaxScore + 1
Outcomes == Scores \cup {Raises}
ValOutcomes == [1..n_val -> Outcomes]

\* _evaluate_example, lines 364-369: the score of the output, 0.0 when running
\* the pipeline on the example or scoring its output raised
EvaluateExample_mut(outcome) == outcome
EvaluateExample(outcome) == IF outcome = Raises THEN 0 ELSE outcome

\* a validation pass: _evaluate_example on every validation example, in order
ValidationRow(outs) == [j \in 1..Len(outs) |-> EvaluateExample(outs[j])]

\* the examples of a pass whose run or scoring raised
RaisedIn(outs) == {j \in 1..Len(outs) : outs[j] = Raises}

\* line 216: module_idx = self.iteration % len(parent.module_sequence)
TargetStage_mut(it, len) == it % (len - 1)
TargetStage(it, len) == it % len

\* ---------------------------------------------------------------------------
\* _select_pareto_candidate
\* ---------------------------------------------------------------------------
\* np.all(m[j] >= m[i]) and np.any(m[j] > m[i])
Dominates_mut(m, j, i) ==
    \A t \in 1..Len(m[i + 1]) : m[j + 1][t] >= m[i + 1][t]
Dominates(m, j, i) ==
    /\ \A t \in 1..Len(m[i + 1]) : m[j + 1][t] >= m[i + 1][t]
    /\ \E t \in 1..Len(m[i + 1]) : m[j + 1][t] > m[i + 1][t]

\* task_best[t]: the candidates attaining the column maximum of example t
TaskBest(m, t) ==
    {i \in 0..(Len(m) - 1) : \A k \in 0..(Len(m) - 1) : m[k + 1][t] <= m[i + 1][t]}

ParetoSet(m) == UNION {TaskBest(m, t) : t \in 1..Len(m[1])}

NonDominated(m) ==
    {i \in ParetoSet(m) : ~ \E j \in ParetoSet(m) : j # i /\ Dominates(m, j, i)}

Frequency(m, i) == Cardinality({t \in 1..Len(m[1]) : i \in TaskBest(m, t)})

\* the indices the selector can return: 0 for an empty matrix or an empty
\* frontier, otherwise a frontier member drawn with probability proportional to
\* its frequency (any member of positive probability)
SelectParetoCandidate_mut(m) ==
    IF Len(m) = 0 \/ Len(m[1]) = 0 THEN {0}
    ELSE {i \in ParetoSet(m) : Frequency(m, i) > 0}
SelectParetoCandidate(m) ==
    IF Len(m) = 0 \/ Len(m[1]) = 0 THEN {0}
    ELSE IF NonDominated(m) = {} THEN {0}
    ELSE {i \in NonDominated(m) : Frequency(m, i) > 0}

\* ---------------------------------------------------------------------------
\* _get_ancestor_prompts
\* ---------------------------------------------------------------------------
\* the pool indices the walk reads, in order; an index outside the pool is the
\* last one (candidate_pool[cur] raises IndexError there)
\* line 398: while cur is not None and len(prompts) < 5
WalkContinues_mut(cur, n) == cur # None /\ n <= MaxAncestors
WalkContinues(cur, n) == cur # None /\ n < MaxAncestors

RECURSIVE AncestorWalk(_, _, _, _)
AncestorWalk(pool, parents, cur, visited) ==
    IF ~ WalkContinues(cur, Len(visited)) THEN visited
    ELSE IF cur >= Len(pool) THEN Append(visited, cur)
    ELSE AncestorWalk(pool, parents, parents[cur + 1], Append(visited, cur))

WalkRaises(pool, parents, start) ==
    \E k \in 1..Len(AncestorWalk(pool, parents, start, <<>>)) :
        AncestorWalk(pool, parents, start, <<>>)[k] >= Len(pool)

GetAncestorPrompts(pool, parents, start, module_name) ==
    LET w == AncestorWalk(pool, parents, start, <<>>)
    IN  [k \in 1..Len(w) |-> pool[w[k] + 1].modules[module_name].prompt]

\* ---------------------------------------------------------------------------
\* _prune_candidates
\* ---------------------------------------------------------------------------
Perms(n) == {f \in [1..n -> 1..n] : \A a, b \in 1..n : a # b => f[a] # f[b]}

\* np.argsort(avg_scores): a permutation (1-based positions here) that puts the
\* means in non-decreasing order; the order of equal means is not specified by
\* the default (unstable) sort
IsArgsort(f, m) ==
    \A a, b \in 1..Len(m) : a < b => ~ MeanGT(MeanSeq(m[f[a]]), MeanSeq(m[f[b]]))

\* the first position of the Python slice a[s:] of a list of length n
PySliceStart(n, s) ==
    IF s < 0 THEN (IF n + s > 0 THEN n + s ELSE 0)
    ELSE (IF s < n THEN s ELSE n)

\* keep = np.argsort(avg_scores)[-max_candidates:], as 1-based positions
Keep(f, n, maxc) ==
    LET st == PySliceStart(n, 0 - maxc)
    IN  [k \in 1..(n - st) |-> f[st + k]]

Reindex(seq, keep) == [k \in 1..Len(keep) |-> seq[keep[k]]]

\* line 415: self.scores_matrix = self.scores_matrix[keep_indices]
PruneMatrix_mut(matrix, keep) == SubSeq(matrix, 1, Len(keep))
PruneMatrix(matrix, keep) == Reindex(matrix, keep)

\* line 414: self.parent_indices = [self.parent_indices[i] for i in keep]
PruneParents_mut(parents, keep) == parents
PruneParents(parents, keep) == Reindex(parents, keep)

\* line 251: if len(self.candidate_pool) > self.max_candidates
PruneNeeded_mut(n, maxc) == n > maxc + 1
PruneNeeded(n, maxc) == n > maxc

\* np.argmax(np.mean(scores_matrix, axis=1)): the first row (0-based) that no
\* row exceeds; the first row when the means are NaN
ArgMaxMean_mut(m) ==
    CHOOSE i \in 0..(Len(m) - 1) :
        /\ \A j \in 0..(Len(m) - 1) : ~ MeanGT(MeanSeq(m[i + 1]), MeanSeq(m[j + 1]))
        /\ \A k \in 0..(i - 1) : \E j \in 0..(Len(m) - 1) :
               MeanGT(MeanSeq(m[k + 1]), MeanSeq(m[j + 1]))
ArgMaxMean(m) ==
    CHOOSE i \in 0..(Len(m) - 1) :
        /\ \A j \in 0..(Len(m) - 1) : ~ MeanGT(MeanSeq(m[j + 1]), MeanSeq(m[i + 1]))
        /\ \A k \in 0..(i - 1) : \E j \in 0..(Len(m) - 1) :
               MeanGT(MeanSeq(m[j + 1]), MeanSeq(m[k + 1]))

\* the rollout accounting of optimize: line 210 after seeding, line 226 after the
\* parent's minibatch pass, line 247 after the validation pass of an accepted mutant
RolloutsAfterSeeding_mut(nv) == 0
RolloutsAfterSeeding(nv) == nv
RolloutsAfterMinibatch(used, mb) == used + Cardinality(mb)
RolloutsAfterValidation_mut(used, nv) == used
RolloutsAfterValidation(used, nv) == used + nv

\* the loop condition of optimize: while self.rollouts_used < budget
BudgetLeft_mut(used, b) == used <= b
BudgetLeft(used, b) == used < b

\* no call of the scoring function or of the pipeline is in progress
Idle == "idle"
\* _evaluate_output has not returned
NoScore == <<>>
HarnessIdle ==
    /\ output = Idle
    /\ expected = Idle
    /\ score = NoScore
    /\ stage_raises = {}
    /\ exec_pc = Idle
    /\ traces = <<>>
    /\ current = 0

\* ---------------------------------------------------------------------------
\* the run
\* ---------------------------------------------------------------------------
Init ==
    /\ candidate_pool = <<SeedCandidate>>
    /\ parent_indices = <<None>>
    /\ scores_matrix = << <<>> >>
    /\ iteration = 0
    /\ rollouts_used = 0
    /\ budget \in 0..MaxBudget
    /\ n_val \in 0..MaxVal
    /\ n_train \in 0..MaxTrain
    /\ minibatch_size \in MinibatchSizes
    /\ max_candidates \in 0..MaxCand
    /\ merge_frequency \in MergeFrequencies
    /\ prompt_sensitive \in BOOLEAN
    /\ pc = "start"
    /\ parent_idx = None
    /\ module_idx = None
    /\ minibatch = {}
    /\ scores_before = <<>>
    /\ scores_after = <<>>
    /\ ancestor_prompts = <<>>
    /\ new_candidate = NoCandidate
    /\ best_idx = None
    /\ error = "none"
    /\ appended = <<[id |-> 0, parent |-> None, row |-> <<>>]>>
    /\ evals = 0
    /\ sum_minibatch = 0
    /\ n_accepted = 0
    /\ pre_prune = <<>>
    /\ val_raised = {}
    /\ targeted = {}
    /\ HarnessIdle

\* optimize, lines 205-210: the seed is scored on every validation example
Seeding ==
    /\ pc = "start"
    /\ \E outs \in ValOutcomes :
         LET row == ValidationRow(outs)
             raised == RaisedIn(outs)
         IN  /\ scores_matrix' = <<row>>
             /\ appended' = <<[id |-> 0, parent |-> None, row |-> row]>>
             /\ val_raised' = raised
    /\ rollouts_used' = RolloutsAfterSeeding(n_val)
    /\ evals' = evals + n_val
    /\ pc' = "while"
    /\ UNCHANGED <<harness, targeted, candidate_pool, parent_indices, iteration, params, locals,
                   sum_minibatch, n_accepted, pre_prune>>

\* lines 212-219: the loop test, the selection of the parent and of the stage,
\* and the draw of the minibatch (without replacement)
StartIteration ==
    /\ pc = "while"
    /\ BudgetLeft(rollouts_used, budget)
    \* the iteration counter is read only modulo len(module_sequence) and modulo
    \* merge_frequency: it is kept modulo their product
    /\ iteration' = (iteration % (NumStages * merge_frequency)) + 1
    /\ \E p \in SelectParetoCandidate(scores_matrix) :
         /\ parent_idx' = p
         /\ module_idx' = TargetStage(iteration', Len(module_sequence))
         /\ targeted' = targeted \cup {TargetStage(iteration', Len(module_sequence))}
    /\ \E mb \in SUBSET (1..n_train) :
         /\ Cardinality(mb) = Min(minibatch_size, n_train)
         /\ minibatch' = mb
    /\ val_raised' = {}
    /\ pc' = "parent_pass"
    /\ UNCHANGED <<harness, candidate_pool, parent_indices, scores_matrix, rollouts_used,
                   params, scores_before, scores_after, ancestor_prompts,
                   new_candidate, best_idx, error, appended, evals, sum_minibatch,
                   n_accepted, pre_prune>>

\* lines 220-226: the parent is run and scored on every example of the minibatch
ParentPass ==
    /\ pc = "parent_pass"
    /\ \E sc \in [minibatch -> Scores] : scores_before' = sc
    /\ rollouts_used' = RolloutsAfterMinibatch(rollouts_used, minibatch)
    /\ evals' = evals + Cardinality(minibatch)
    /\ sum_minibatch' = sum_minibatch + Cardinality(minibatch)
    /\ pc' = "mutate"
    /\ UNCHANGED <<harness, targeted, candidate_pool, parent_indices, scores_matrix, iteration, params,
                   parent_idx, module_idx, minibatch, scores_after, ancestor_prompts,
                   new_candidate, best_idx, error, appended, n_accepted, pre_prune, val_raised>>

\* lines 222-223 have no handler: an exception of the parent's run on a minibatch
\* example, or of the scoring of its output, leaves optimize
ParentPassExampleRaises ==
    /\ pc = "parent_pass"
    /\ minibatch # {}
    /\ error' = "example"
    /\ pc' = "raised"
    /\ UNCHANGED <<harness, targeted, fields, params, parent_idx, module_idx, minibatch, scores_before,
                   scores_after, ancestor_prompts, new_candidate, best_idx, history>>

\* line 224 has no handler: an exception of feedback.generate_feedback on a
\* minibatch example leaves optimize
ParentPassFeedbackRaises ==
    /\ pc = "parent_pass"
    /\ minibatch # {}
    /\ error' = "feedback"
    /\ pc' = "raised"
    /\ UNCHANGED <<harness, targeted, fields, params, parent_idx, module_idx, minibatch, scores_before,
                   scores_after, ancestor_prompts, new_candidate, best_idx, history>>

\* lines 228-234: the reflection proposes a prompt, the mutant is a deep copy of
\* the parent with that prompt and the next version at the targeted stage
Mutate ==
    /\ pc = "mutate"
    /\ LET module_name == module_sequence[module_idx + 1]
           parent == candidate_pool[parent_idx + 1]
       IN  /\ ~ WalkRaises(candidate_pool, parent_indices, parent_idx)
           /\ ancestor_prompts' =
                  GetAncestorPrompts(candidate_pool, parent_indices, parent_idx, module_name)
           /\ new_candidate' = NewCandidate(parent, module_name, ProposedPrompt)
    /\ pc' = "mutant_pass"
    /\ UNCHANGED <<harness, targeted, fields, params, parent_idx, module_idx, minibatch, scores_before,
                   scores_after, best_idx, error, history>>

\* lines 236-240 with gepa.py lines 127-152: the scores the mutant can get on
\* the minibatch. A pipeline whose stages dispatch on the stage name only gives
\* the mutant the parent's outputs, hence the parent's scores
MutantScores_mut(sensitive, batch, before) == [batch -> Scores]
MutantScores(sensitive, batch, before) ==
    IF sensitive THEN [batch -> Scores] ELSE {before}

\* lines 236-240: the mutant is run and scored on the same minibatch
MutantPass ==
    /\ pc = "mutant_pass"
    /\ \E sc \in MutantScores(prompt_sensitive, minibatch, scores_before) :
           scores_after' = sc
    /\ evals' = evals + Cardinality(minibatch)
    /\ pc' = "decide"
    /\ UNCHANGED <<harness, targeted, fields, params, parent_idx, module_idx, minibatch, scores_before,
                   ancestor_prompts, new_candidate, best_idx, error, appended, sum_minibatch,
                   n_accepted, pre_prune, val_raised>>

\* lines 239-240 have no handler: an exception of the mutant's run on a minibatch
\* example, or of the scoring of its output, leaves optimize. The parent's pass
\* returned on the same examples, so the mutant's outputs must differ from the
\* parent's for its pass to raise
MutantPassExampleRaises ==
    /\ pc = "mutant_pass"
    /\ minibatch # {}
    /\ prompt_sensitive
    /\ error' = "example"
    /\ pc' = "raised"
    /\ UNCHANGED <<harness, targeted, fields, params, parent_idx, module_idx, minibatch, scores_before,
                   scores_after, ancestor_prompts, new_candidate, best_idx, history>>

\* lines 242-252, the mutant is accepted: scored on the validation set, appended,
\* and the pool pruned when it exceeds max_candidates
Accept ==
    /\ pc = "decide"
    /\ AcceptTest(scores_after, scores_before)
    /\ \E outs \in ValOutcomes :
         LET new_scores == ValidationRow(outs)
             raised == RaisedIn(outs)
             pool == Append(candidate_pool, new_candidate)
             parents == Append(parent_indices, parent_idx)
             matrix == Append(scores_matrix, new_scores)
             parent_id == candidate_pool[parent_idx + 1].id
         IN  /\ appended' = Append(appended, [id |-> new_candidate.id,
                                              parent |-> parent_id, row |-> new_scores])
             /\ val_raised' = raised
             /\ IF PruneNeeded(Len(pool), max_candidates)
                THEN \E f \in Perms(Len(pool)) :
                       /\ IsArgsort(f, matrix)
                       /\ LET keep == Keep(f, Len(pool), max_candidates)
                          IN  /\ candidate_pool' = Reindex(pool, keep)
                              /\ parent_indices' = PruneParents(parents, keep)
                              /\ scores_matrix' = PruneMatrix(matrix, keep)
                       /\ pre_prune' = [k \in 1..Len(pool) |->
                                           [id |-> pool[k].id, row |-> matrix[k]]]
                ELSE /\ candidate_pool' = pool
                     /\ parent_indices' = parents
                     /\ scores_matrix' = matrix
                     /\ pre_prune' = <<>>
    /\ rollouts_used' = RolloutsAfterValidation(rollouts_used, n_val)
    /\ evals' = evals + n_val
    /\ n_accepted' = n_accepted + 1
    /\ pc' = "merge"
    /\ UNCHANGED <<harness, targeted, iteration, params, locals, sum_minibatch>>

\* line 242, the mutant is discarded
Discard ==
    /\ pc = "decide"
    /\ ~ AcceptTest(scores_after, scores_before)
    /\ pre_prune' = <<>>
    /\ val_raised' = {}
    /\ pc' = "merge"
    /\ UNCHANGED <<harness, targeted, fields, params, locals, appended, evals, sum_minibatch,
                   n_accepted>>

\* _try_merge, lines 405-407: return None
TryMerge_mut(pool, parents, matrix, used) ==
    [candidate_pool |-> pool, parent_indices |-> parents, scores_matrix |-> matrix,
     rollouts_used |-> used + 1]
TryMerge(pool, parents, matrix, used) ==
    [candidate_pool |-> pool, parent_indices |-> parents, scores_matrix |-> matrix,
     rollouts_used |-> used]

\* lines 254-255: the merge step runs when the iteration is a multiple of
\* merge_frequency; the iteration's locals go out of use
MaybeMerge ==
    /\ pc = "merge"
    /\ iteration % merge_frequency = 0
    /\ LET r == TryMerge(candidate_pool, parent_indices, scores_matrix, rollouts_used)
       IN  /\ candidate_pool' = r.candidate_pool
           /\ parent_indices' = r.parent_indices
           /\ scores_matrix' = r.scores_matrix
           /\ rollouts_used' = r.rollouts_used
    /\ pc' = "while"
    /\ parent_idx' = None
    /\ module_idx' = None
    /\ minibatch' = {}
    /\ scores_before' = <<>>
    /\ scores_after' = <<>>
    /\ ancestor_prompts' = <<>>
    /\ new_candidate' = NoCandidate
    /\ pre_prune' = <<>>
    /\ val_raised' = {}
    /\ UNCHANGED <<harness, targeted, iteration, params, best_idx, error, appended, evals, sum_minibatch, n_accepted>>

\* line 254: not a multiple of merge_frequency, no merge step
SkipMerge ==
    /\ pc = "merge"
    /\ iteration % merge_frequency # 0
    /\ pc' = "while"
    /\ parent_idx' = None
    /\ module_idx' = None
    /\ minibatch' = {}
    /\ scores_before' = <<>>
    /\ scores_after' = <<>>
    /\ ancestor_prompts' = <<>>
    /\ new_candidate' = NoCandidate
    /\ pre_prune' = <<>>
    /\ val_raised' = {}
    /\ UNCHANGED <<harness, targeted, fields, params, best_idx, error, appended, evals, sum_minibatch, n_accepted>>

\* lines 257-258: the loop is left, the pool's best mean is returned
Return ==
    /\ pc = "while"
    /\ ~ BudgetLeft(rollouts_used, budget)
    /\ best_idx' = ArgMaxMean(scores_matrix)
    /\ pc' = "done"
    /\ UNCHANGED <<harness, targeted, fields, params, parent_idx, module_idx, minibatch, scores_before,
                   scores_after, ancestor_prompts, new_candidate, error, history>>

Next ==
    \/ Seeding
    \/ StartIteration
    \/ ParentPass
    \/ ParentPassExampleRaises
    \/ ParentPassFeedbackRaises
    \/ Mutate
    \/ MutantPass
    \/ MutantPassExampleRaises
    \/ Accept
    \/ Discard
    \/ MaybeMerge
    \/ SkipMerge
    \/ Return

Spec == Init /\ [][Next]_vars

\* ---------------------------------------------------------------------------
\* _select_pareto_candidate on the score matrices of a pool of up to MaxRows
\* candidates
\* ---------------------------------------------------------------------------
\* the candidate numbered k of a run whose every iteration accepted its mutant:
\* iteration k copied the candidate at parents[k + 1] and rewrote stage k % 6
RECURSIVE ReplayCandidate(_, _)
ReplayCandidate(parents, k) ==
    IF k = 0 THEN SeedCandidate
    ELSE LET parent == ReplayCandidate(parents, parents[k + 1])
             module_name == module_sequence[(k % Len(module_sequence)) + 1]
         IN  [id |-> k,
              modules |-> [parent.modules EXCEPT
                  ![module_name] = [prompt |-> k, version |-> @.version + 1]]]

Matrices(rows, cols) == [1..rows -> [1..cols -> Scores]]

\* the parent lists of such a run: every mutant's parent was selected on the
\* matrix of the candidates before it
RECURSIVE ParentLists(_)
ParentLists(m) ==
    IF Len(m) = 1 THEN {<<None>>}
    ELSE LET before == SubSeq(m, 1, Len(m) - 1)
         IN  {Append(ps, p) : ps \in ParentLists(before),
                              p \in SelectParetoCandidate(before)}

\* optimize at the loop test after rows - 1 iterations that each drew a
\* minibatch, accepted their mutant and never pruned (max_candidates is the
\* largest pool), with budget left for one more iteration
SelectorInit ==
    /\ n_val \in 1..MaxVal
    /\ n_train \in 1..MaxTrain
    /\ minibatch_size \in MinibatchSizes
    /\ max_candidates = MaxRows
    /\ merge_frequency = 1
    /\ prompt_sensitive = TRUE
    /\ \E rows \in 1..MaxRows : \E m \in Matrices(rows, n_val) : \E ps \in ParentLists(m) :
         LET size == Min(minibatch_size, n_train)
         IN  /\ scores_matrix = m
             /\ parent_indices = ps
             /\ candidate_pool = [k \in 1..rows |-> ReplayCandidate(ps, k - 1)]
             /\ appended = [k \in 1..rows |-> [id |-> k - 1, parent |-> ps[k], row |-> m[k]]]
             /\ iteration = rows - 1
             /\ rollouts_used = n_val + (rows - 1) * (size + n_val)
             /\ budget = n_val + (rows - 1) * (size + n_val) + 1
             /\ evals = n_val + (rows - 1) * (2 * size + n_val)
             /\ sum_minibatch = (rows - 1) * size
             /\ n_accepted = rows - 1
             /\ targeted = {TargetStage(k, Len(module_sequence)) : k \in 1..(rows - 1)}
    /\ pc = "while"
    /\ parent_idx = None
    /\ module_idx = None
    /\ minibatch = {}
    /\ scores_before = <<>>
    /\ scores_after = <<>>
    /\ ancestor_prompts = <<>>
    /\ new_candidate = NoCandidate
    /\ best_idx = None
    /\ error = "none"
    /\ pre_prune = <<>>
    /\ val_raised = {}
    /\ HarnessIdle

\* the next iteration's selection on each of these matrices
SelectorSpec == SelectorInit /\ [][StartIteration]_vars

\* run_smoke's setting, test_smoke.py lines 13-32, for every size of the
\* validation set: minibatch_size 1 and a budget of twice the validation set
SmokeInit ==
    /\ candidate_pool = <<SeedCandidate>>
    /\ parent_indices = <<None>>
    /\ scores_matrix = << <<>> >>
    /\ iteration = 0
    /\ rollouts_used = 0
    /\ n_val \in 0..MaxVal
    /\ budget = 2 * n_val
    /\ n_train \in 0..MaxTrain
    /\ minibatch_size = 1
    /\ max_candidates \in 0..MaxCand
    /\ merge_frequency \in MergeFrequencies
    /\ prompt_sensitive \in BOOLEAN
    /\ pc = "start"
    /\ parent_idx = None
    /\ module_idx = None
    /\ minibatch = {}
    /\ scores_before = <<>>
    /\ scores_after = <<>>
    /\ ancestor_prompts = <<>>
    /\ new_candidate = NoCandidate
    /\ best_idx = None
    /\ error = "none"
    /\ appended = <<[id |-> 0, parent |-> None, row |-> <<>>]>>
    /\ evals = 0
    /\ sum_minibatch = 0
    /\ n_accepted = 0
    /\ pre_prune = <<>>
    /\ val_raised = {}
    /\ targeted = {}
    /\ HarnessIdle

SmokeSpec == SmokeInit /\ [][Next]_vars

\* ---------------------------------------------------------------------------
\* _evaluate_output, lines 371-394
\* ---------------------------------------------------------------------------
\* the optimizer as constructed, optimize not called
NotRunning ==
    /\ candidate_pool = <<SeedCandidate>>
    /\ parent_indices = <<None>>
    /\ scores_matrix = << <<>> >>
    /\ iteration = 0
    /\ rollouts_used = 0
    /\ budget = 0
    /\ n_val = 0
    /\ n_train = 0
    /\ minibatch_size = 1
    /\ max_candidates = 1
    /\ merge_frequency = 1
    /\ prompt_sensitive = FALSE
    /\ pc = Idle
    /\ parent_idx = None
    /\ module_idx = None
    /\ minibatch = {}
    /\ scores_before = <<>>
    /\ scores_after = <<>>
    /\ ancestor_prompts = <<>>
    /\ new_candidate = NoCandidate
    /\ best_idx = None
    /\ error = "none"
    /\ appended = <<[id |-> 0, parent |-> None, row |-> <<>>]>>
    /\ evals = 0
    /\ sum_minibatch = 0
    /\ n_accepted = 0
    /\ pre_prune = <<>>
    /\ val_raised = {}
    /\ targeted = {}

\* a dict entry: <<>> when the dict does not have the key, <<v>> for the value v
Absent == <<>>
Entries(values) == {Absent} \cup {<<v>> : v \in values}
\* node labels are numbered: 1 is Order, 2 is Payment
Labels == 1..MaxLabels
RelTypes == {"IS_PART_OF_ORDER_HEADER"}
Patterns == {"rapid_refund"}
QueryCounts == 0..1

Outputs ==
    [nodes : Entries(SUBSET Labels),
     relationships : Entries(SUBSET RelTypes),
     alerts : Entries(SUBSET Patterns),
     cypher_queries : Entries(QueryCounts)]
Expecteds ==
    [expected_nodes : Entries(SUBSET Labels),
     expected_relationships : Entries(SUBSET RelTypes),
     known_patterns : Entries(SUBSET Patterns)]

\* floats as exact fractions <<numerator, denominator>>
Frac(a, b) == <<a, b>>
FracAdd(x, y) == <<x[1] * y[2] + y[1] * x[2], x[2] * y[2]>>
FracMul(x, y) == <<x[1] * y[1], x[2] * y[2]>>
FracDiv(x, y) == <<x[1] * y[2], x[2] * y[1]>>
FracPos(x) == x[1] * x[2] > 0
RECURSIVE FracSum(_)
FracSum(xs) == IF xs = <<>> THEN Frac(0, 1) ELSE FracAdd(Head(xs), FracSum(Tail(xs)))

\* lines 373-379: precision, recall and their harmonic mean
F1Score_mut(extracted, expected_set) ==
    IF extracted # {} THEN Frac(Cardinality(extracted \cap expected_set), Cardinality(extracted))
    ELSE Frac(0, 1)
F1Score(extracted, expected_set) ==
    LET both == Cardinality(extracted \cap expected_set)
        prec == IF extracted # {} THEN Frac(both, Cardinality(extracted)) ELSE Frac(0, 1)
        rec == IF expected_set # {} THEN Frac(both, Cardinality(expected_set)) ELSE Frac(0, 1)
    IN  IF FracPos(FracAdd(prec, rec))
        THEN FracDiv(FracMul(Frac(2, 1), FracMul(prec, rec)), FracAdd(prec, rec))
        ELSE Frac(0, 1)

\* lines 380-384
RelScore(created_types, expected_types) ==
    IF expected_types # {}
    THEN Frac(Cardinality(created_types \cap expected_types), Cardinality(expected_types))
    ELSE Frac(0, 1)

\* lines 385-389
AlertRecall(detected, known) ==
    IF known # {} THEN Frac(Cardinality(detected \cap known), Cardinality(known))
    ELSE Frac(1, 1)

\* lines 390-393
CypherScore(qcnt) == IF qcnt > 0 THEN Frac(1, 1) ELSE Frac(0, 1)

\* the list scores of _evaluate_output, in the order of its appends
ScoreList(out, exp) ==
    (IF out.nodes # Absent /\ exp.expected_nodes # Absent
     THEN <<F1Score(out.nodes[1], exp.expected_nodes[1])>> ELSE <<>>)
    \o (IF out.relationships # Absent /\ exp.expected_relationships # Absent
        THEN <<RelScore(out.relationships[1], exp.expected_relationships[1])>> ELSE <<>>)
    \o (IF out.alerts # Absent /\ exp.known_patterns # Absent
        THEN <<AlertRecall(out.alerts[1], exp.known_patterns[1])>> ELSE <<>>)
    \o (IF out.cypher_queries # Absent
        THEN <<CypherScore(out.cypher_queries[1])>> ELSE <<>>)

\* line 394: float(np.mean(scores)) if scores else 0.0
EvaluateOutput(out, exp) ==
    LET scores == ScoreList(out, exp)
    IN  IF scores # <<>> THEN FracDiv(FracSum(scores), Frac(Len(scores), 1)) ELSE Frac(0, 1)

\* a call of _evaluate_output on an output and an expected dict
ScoreInit ==
    /\ NotRunning
    /\ output \in Outputs
    /\ expected \in Expecteds
    /\ score = NoScore
    /\ stage_raises = {}
    /\ exec_pc = Idle
    /\ traces = <<>>
    /\ current = 0

Evaluate ==
    /\ score = NoScore
    /\ score' = EvaluateOutput(output, expected)
    /\ UNCHANGED <<fields, params, pc, locals, history, targeted, output, expected,
                   stage_raises, exec_pc, traces, current>>

ScoreSpec == ScoreInit /\ [][Evaluate]_vars

\* ---------------------------------------------------------------------------
\* ToastNeo4jPipeline.execute_with_traces, gepa.py lines 115-152
\* ---------------------------------------------------------------------------
\* _execute_module: the trace of running the stage; an exception of the stage is
\* caught and recorded (lines 149-152)
ExecutionTrace(module_name, raised) ==
    [module_name |-> module_name, success |-> ~ raised, error_message |-> raised]

\* lines 122-123: if not trace.success: break
StopsAfter_mut(trace) == FALSE
StopsAfter(trace) == ~ trace.success

\* a call of execute_with_traces on a pipeline whose stages in stage_raises raise
\* when they run; current = 0 is input_data, current = k the output of stage k
PipelineInit ==
    /\ NotRunning
    /\ output = Idle
    /\ expected = Idle
    /\ score = NoScore
    /\ stage_raises \in SUBSET (1..NumStages)
    /\ exec_pc = "loop"
    /\ traces = <<>>
    /\ current = 0

\* lines 118-124: one pass of the for loop
ExecuteModule ==
    /\ exec_pc = "loop"
    /\ Len(traces) < Len(module_sequence)
    /\ LET name == module_sequence[Len(traces) + 1]
           trace == ExecutionTrace(name, name \in stage_raises)
       IN  /\ traces' = Append(traces, trace)
           /\ IF StopsAfter(trace)
              THEN /\ exec_pc' = "returned"
                   /\ current' = current
              ELSE /\ exec_pc' = "loop"
                   /\ current' = name
    /\ UNCHANGED <<fields, params, pc, locals, history, targeted, output, expected,
                   score, stage_raises>>

\* line 125, after the last stage: return current, traces
ExecuteReturn ==
    /\ exec_pc = "loop"
    /\ Len(traces) = Len(module_sequence)
    /\ exec_pc' = "returned"
    /\ UNCHANGED <<fields, params, pc, locals, history, targeted, output, expected,
                   score, stage_raises, traces, current>>

PipelineNext == ExecuteModule \/ ExecuteReturn

PipelineSpec == PipelineInit /\ [][PipelineNext]_vars

\* optimize is one coroutine that is run to completion: each of its steps is
\* taken once it can be
FairSpec == Spec /\ WF_vars(Next)

\* ---------------------------------------------------------------------------
\* properties
\* ---------------------------------------------------------------------------
\* the exact comparison of two means, stated on the sums: a and b are the scores
\* of two passes over one non-empty minibatch
StrictlyHigherOnMinibatch(a, b, mb) ==
    mb # {} /\ SumFun(a, mb) > SumFun(b, mb)

\* the iteration's mutant is the last candidate appended
MutantAppended == Len(appended) > 1 /\ appended[Len(appended)].id = new_candidate.id

\* C1: in every iteration the mutant is appended to the pool if and only if the
\* mean of its minibatch scores is strictly greater than the mean of the parent's
\* scores on the same minibatch; nothing is appended at any other step.
C1_AcceptIffStrictlyBetter ==
    [][ /\ (pc = "decide" /\ pc' # "decide") =>
              (MutantAppended' <=>
                  StrictlyHigherOnMinibatch(scores_after, scores_before, minibatch))
        /\ (Len(appended') # Len(appended)) =>
              /\ pc = "decide"
              /\ appended' = Append(appended, appended'[Len(appended')])
              /\ StrictlyHigherOnMinibatch(scores_after, scores_before, minibatch)
      ]_vars

\* C1 witness: a mutant of strictly higher minibatch mean over a minibatch of two
\* examples has been appended
C1_Witness ==
    /\ pc = "merge"
    /\ MutantAppended
    /\ Cardinality(minibatch) = 2
    /\ SumFun(scores_before, minibatch) = 1
    /\ SumFun(scores_after, minibatch) = 2

\* C2: when optimize returns, the returned candidate is the pool candidate of
\* highest mean validation score: no candidate of the pool, and no candidate ever
\* appended during the run (the seed and the pruned ones included), has a higher
\* mean.  Rows have one length, so means compare as sums.
C2_ReturnsBestEverAppended ==
    pc = "done" =>
        /\ best_idx \in 0..(Len(candidate_pool) - 1)
        /\ \A k \in 1..Len(scores_matrix) :
               SumSeq(scores_matrix[k]) <= SumSeq(scores_matrix[best_idx + 1])
        /\ \A h \in 1..Len(appended) :
               SumSeq(appended[h].row) <= SumSeq(scores_matrix[best_idx + 1])

\* C2 witness: optimize has returned a mutant after a prune removed a candidate
C2_Witness ==
    /\ pc = "done"
    /\ n_val > 0
    /\ Len(appended) > Len(candidate_pool)
    /\ candidate_pool[best_idx + 1].id # 0
    /\ SumSeq(scores_matrix[best_idx + 1]) > SumSeq(appended[1].row)

InIteration == pc \in {"parent_pass", "mutate", "mutant_pass", "decide", "merge"}

\* C3: rollouts_used never decreases; an iteration begins only when
\* rollouts_used is strictly below the budget; the budget is tested only between
\* iterations, so optimize returns only from the loop test with the budget
\* reached, and a started iteration always has its next step to take.
C3_BudgetCheckedBetweenIterations ==
    /\ [](InIteration => ENABLED Next)
    /\ [][ /\ rollouts_used' >= rollouts_used
           /\ (iteration' # iteration => pc = "while" /\ rollouts_used < budget)
           /\ (pc' = "parent_pass" => rollouts_used < budget)
           /\ (pc' = "done" => pc = "while" /\ rollouts_used >= budget)
           /\ (InIteration => pc' # "done")
         ]_vars

\* C3 witness: the budget was already reached after the minibatch pass, and the
\* iteration still went on to validate and append its mutant
C3_Witness ==
    /\ pc = "merge"
    /\ MutantAppended
    /\ n_val > 0
    /\ rollouts_used - n_val >= budget

\* C4: every run of optimize eventually returns.
C4_Terminates == <>(pc = "done")

\* C5: at every iteration boundary rollouts_used equals the number of
\* candidate-example evaluations performed so far.
C5_OneUnitPerEvaluation ==
    pc \in {"while", "done"} => rollouts_used = evals

\* C6: at every iteration boundary rollouts_used is |validation set| plus the
\* minibatch sizes of the iterations so far plus |validation set| per accepted
\* mutant; within an iteration the completed minibatch pass costs |minibatch|,
\* an acceptance |validation set|, and nothing else costs anything.
C6_BudgetAccounting ==
    /\ [](pc \in {"while", "done"} =>
             rollouts_used = n_val + sum_minibatch + n_val * n_accepted)
    /\ [][ /\ (pc = "parent_pass" /\ pc' = "mutate" =>
                  rollouts_used' = rollouts_used + Cardinality(minibatch))
           /\ (pc' = "raised" => rollouts_used' = rollouts_used)
           /\ (pc = "decide" =>
                  rollouts_used' = rollouts_used + (IF MutantAppended' THEN n_val ELSE 0))
           /\ (pc \in {"while", "mutate", "mutant_pass", "merge"} =>
                  rollouts_used' = rollouts_used)
         ]_vars

\* C6 witness: a boundary where the minibatch passes have cost 2 units and one
\* mutant was accepted over a validation set of one example
C6_Witness ==
    /\ pc = "while"
    /\ n_val = 1
    /\ n_accepted = 1
    /\ sum_minibatch = 2
    /\ rollouts_used = 4

\* C7: every candidate's parent index is none or strictly less than the
\* candidate's own pool index.
C7_ParentBelowChild ==
    \A k \in 1..Len(parent_indices) :
        parent_indices[k] = None \/ parent_indices[k] < k - 1

\* the pool index (0-based) of the candidate numbered id, None when it is not in
\* the pool
IndexOfId(id) ==
    IF \E q \in 1..Len(candidate_pool) : candidate_pool[q].id = id
    THEN (CHOOSE q \in 1..Len(candidate_pool) : candidate_pool[q].id = id) - 1
    ELSE None

\* the candidate a pool member was derived from, None for the seed
TrueParentId(id) == appended[id + 1].parent

JustPruned == pc = "merge" /\ pre_prune # <<>>

\* C8: after a prune every kept candidate's parent index is the new position of
\* its original parent when that parent was kept, and none when it was removed.
C8_PruneRemapsParents ==
    JustPruned =>
        \A k \in 1..Len(candidate_pool) :
            parent_indices[k] =
                IF TrueParentId(candidate_pool[k].id) = None THEN None
                ELSE IndexOfId(TrueParentId(candidate_pool[k].id))

\* the candidate numbered id and the candidates it was derived from
RECURSIVE TrueChain(_)
TrueChain(id) == IF id = None THEN {} ELSE {id} \cup TrueChain(TrueParentId(id))

\* C9: the ancestor walk from any pool index reads only that candidate and
\* candidates of its true parent chain, each at most once.
C9_WalkFollowsTrueAncestry ==
    \A i \in 0..(Len(candidate_pool) - 1) :
        LET w == AncestorWalk(candidate_pool, parent_indices, i, <<>>)
        IN  /\ \A k \in 1..Len(w) :
                  /\ w[k] < Len(candidate_pool)
                  /\ candidate_pool[w[k] + 1].id \in TrueChain(candidate_pool[i + 1].id)
            /\ \A a, b \in 1..Len(w) : a # b => w[a] # w[b]

\* C10: a prune leaves min(keep_count, original_size) candidates, all of them
\* candidates of the pool before, and no removed candidate has a strictly higher
\* mean than a kept one.
C10_PruneKeepsTopK ==
    JustPruned =>
        LET before == {pre_prune[k].id : k \in 1..Len(pre_prune)}
            kept == {candidate_pool[k].id : k \in 1..Len(candidate_pool)}
            sumOf(id) == SumSeq(appended[id + 1].row)
        IN  /\ Len(candidate_pool) = Min(max_candidates, Len(pre_prune))
            /\ kept \subseteq before
            /\ \A r \in before \ kept : \A c \in kept : sumOf(r) <= sumOf(c)

AtBoundary == pc \in {"while", "done"}

\* C11: at every iteration boundary the candidate list, the parent-index list
\* and the score matrix have the same number of entries, and every row of the
\* matrix has |validation set| columns.
C11_PoolListsAligned ==
    AtBoundary =>
        /\ Len(candidate_pool) = Len(parent_indices)
        /\ Len(candidate_pool) = Len(scores_matrix)
        /\ \A k \in 1..Len(scores_matrix) : Len(scores_matrix[k]) = n_val

\* C11 witness: a boundary after a prune removed a candidate, two validation
\* examples
C11_Witness ==
    /\ pc = "while"
    /\ n_val = 2
    /\ Len(appended) > Len(candidate_pool)
    /\ Len(scores_matrix[1]) = 2

\* C12: with max_candidates of at least 1, the pool holds at most max_candidates
\* candidates at the end of every iteration.
C12_PoolCapped ==
    (max_candidates >= 1 /\ pc \in {"merge", "while", "done"}) =>
        Len(candidate_pool) <= max_candidates

\* C12 witness: a prune has just cut a pool that exceeded max_candidates
C12_Witness ==
    /\ JustPruned
    /\ max_candidates >= 1
    /\ Len(pre_prune) = max_candidates + 1
    /\ Len(candidate_pool) = max_candidates

\* C16: a minibatch example whose run or scoring raises, in the parent's or the
\* mutant's pass, is scored 0 and the iteration goes on: such an exception never
\* ends optimize.
C16_ExampleFailureDoesNotAbort ==
    ~ (pc = "raised" /\ error = "example")

\* the row written by the last validation pass (seeding or an acceptance)
LastValidationRow == appended[Len(appended)].row

\* C17: in seeding and in the validation pass of an accepted mutant, an example
\* whose run or scoring raises gets score 0, the exception does not leave the
\* pass, and every validation example has its score in the row.
C17_ValidationFailureScoresZero ==
    [][ (pc \in {"start", "decide"} /\ val_raised' # {}) =>
            /\ pc' \in {"while", "merge"}
            /\ error' = "none"
            /\ Len(LastValidationRow') = n_val
            /\ \A j \in val_raised' : LastValidationRow'[j] = 0
            /\ (pc = "start" => scores_matrix' = <<LastValidationRow'>>)
      ]_vars

\* C17 witness: one of two validation examples raised in the validation pass of
\* an accepted mutant, the other was scored above 0
C17_Witness ==
    /\ pc = "merge"
    /\ MutantAppended
    /\ n_val = 2
    /\ val_raised = {1}
    /\ LastValidationRow[1] = 0
    /\ LastValidationRow[2] > 0

\* C18: an exception of the feedback generator on a minibatch example never ends
\* optimize (the feedback counts as empty and the iteration goes on).
C18_FeedbackFailureDoesNotAbort ==
    ~ (pc = "raised" /\ error = "feedback")

\* C20: the merge step, run at the end of the iterations that are multiples of
\* merge_frequency, leaves the candidate list, the parent-index list, the score
\* matrix and rollouts_used unchanged.
C20_MergeChangesNothing ==
    [][ (pc = "merge" /\ iteration % merge_frequency = 0) =>
            UNCHANGED <<candidate_pool, parent_indices, scores_matrix, rollouts_used>>
      ]_vars

\* C20 witness: the merge step has run at the end of iteration 2 on a pool of two
C20_Witness ==
    /\ pc = "while"
    /\ merge_frequency = 2
    /\ iteration = 2
    /\ Len(candidate_pool) = 2

\* C13: for every score matrix with at least one row and at least one column the
\* non-dominated frontier the selector computes is not empty, so the selector
\* never falls back to index 0 for an empty frontier.
C13_FrontierNonEmpty ==
    (Len(scores_matrix) >= 1 /\ Len(scores_matrix[1]) >= 1) =>
        NonDominated(scores_matrix) # {}

\* C13 witness: the selector has run on two candidates with equal rows, neither
\* dominating the other
C13_Witness ==
    /\ pc = "parent_pass"
    /\ Len(scores_matrix) = 2
    /\ Len(scores_matrix[1]) = 2
    /\ scores_matrix[1] = scores_matrix[2]
    /\ NonDominated(scores_matrix) = {0, 1}

\* C14: on a matrix with at least one row and one column the selected index is a
\* pool index, attains the column maximum of at least one validation example,
\* and no other index attaining some column maximum is at least as high on every
\* example and higher on one.
C14_SelectedOnFrontier ==
    (pc = "parent_pass" /\ Len(scores_matrix) >= 1 /\ Len(scores_matrix[1]) >= 1) =>
        LET m == scores_matrix
            n == Len(m)
            cols == 1..Len(m[1])
            best(i) == \E t \in cols : \A k \in 1..n : m[k][t] <= m[i + 1][t]
            p == parent_idx
        IN  /\ p \in 0..(n - 1)
            /\ p < Len(candidate_pool)
            /\ best(p)
            /\ \A j \in 0..(n - 1) :
                 (j # p /\ best(j)) =>
                     ~ (/\ \A t \in cols : m[j + 1][t] >= m[p + 1][t]
                        /\ \E t \in cols : m[j + 1][t] > m[p + 1][t])

\* C14 witness: the seed ties the column maximum of one example but is dominated
\* by the second candidate, which was selected
C14_Witness ==
    /\ pc = "parent_pass"
    /\ scores_matrix = << <<1, 0>>, <<1, 1>> >>
    /\ parent_idx = 1

\* the candidate optimize returned
Returned == candidate_pool[best_idx + 1]

FracIs(x, a, b) == x[2] # 0 /\ x[1] * b = a * x[2]

\* C21: when output has 'nodes', expected has 'expected_nodes' and no other
\* scored field is present, the score is 2*|E \cap X| / (|E| + |X|) for the
\* extracted labels E and the expected labels X, and 0 when E and X are disjoint
\* or one of them is empty; E = {Order}, X = {Order, Payment} gives 2/3; the
\* score of every call lies in [0, 1].
C21_LabelSetF1 ==
    score # NoScore =>
        /\ score[2] > 0 /\ 0 <= score[1] /\ score[1] <= score[2]
        /\ (/\ output.nodes # Absent
            /\ expected.expected_nodes # Absent
            /\ output.cypher_queries = Absent
            /\ output.relationships = Absent \/ expected.expected_relationships = Absent
            /\ output.alerts = Absent \/ expected.known_patterns = Absent) =>
              LET E == output.nodes[1]
                  X == expected.expected_nodes[1]
              IN  /\ (E \cap X = {}) => score[1] = 0
                  /\ (E \cap X # {}) =>
                         FracIs(score, 2 * Cardinality(E \cap X),
                                Cardinality(E) + Cardinality(X))
                  /\ (E = {1} /\ X = {1, 2}) => FracIs(score, 2, 3)

\* C21 witness: E = {Order}, X = {Order, Payment}, only the label sets scored
C21_Witness ==
    /\ score # NoScore
    /\ output = [nodes |-> <<{1}>>, relationships |-> Absent, alerts |-> Absent,
                 cypher_queries |-> Absent]
    /\ expected.expected_nodes = <<{1, 2}>>
    /\ FracIs(score, 2, 3)

\* C22: in every reachable state the ancestor walk from any pool index ends,
\* reads no index outside the candidate list or the parent-index list (also
\* after prunes), returns at most 5 instruction texts, the first of them the
\* start candidate's own text of the requested stage, and stops at the first
\* candidate whose parent is none.
C22_WalkStaysInPool ==
    \A i \in 0..(Len(candidate_pool) - 1) : \A module_name \in 1..NumStages :
        LET w == AncestorWalk(candidate_pool, parent_indices, i, <<>>)
            prompts == GetAncestorPrompts(candidate_pool, parent_indices, i, module_name)
        IN  /\ \A k \in 1..Len(w) :
                  /\ 0 <= w[k]
                  /\ w[k] < Len(candidate_pool)
                  /\ w[k] < Len(parent_indices)
            /\ Len(prompts) >= 1
            /\ Len(prompts) <= 5
            /\ prompts[1] = candidate_pool[i + 1].modules[module_name].prompt
            /\ \A k \in 1..(Len(w) - 1) : parent_indices[w[k] + 1] # None
            /\ Len(w) < 5 => parent_indices[w[Len(w)] + 1] = None

\* C22 witness: after a prune removed the seed, the kept mutant's parent index
\* is its own index, and the walk from it returns 5 texts
C22_Witness ==
    /\ pc = "while"
    /\ Len(candidate_pool) = 1
    /\ candidate_pool[1].id # 0
    /\ parent_indices = <<0>>
    /\ Len(GetAncestorPrompts(candidate_pool, parent_indices, 0, 1)) = 5

\* C23: the mutant built in an iteration equals its parent except at the
\* targeted stage, whose instruction is the proposed text and whose version is
\* the parent's plus 1; the stages are the same; building and evaluating the
\* mutant leaves the pool, and so the parent in it, unchanged.
C23_MutantDiffersAtTargetOnly ==
    [][ /\ (pc = "mutate" /\ pc' = "mutant_pass") =>
              LET parent == candidate_pool[parent_idx + 1]
                  target == module_sequence[module_idx + 1]
              IN  /\ DOMAIN new_candidate'.modules = DOMAIN parent.modules
                  /\ \A k \in DOMAIN parent.modules :
                         k # target => new_candidate'.modules[k] = parent.modules[k]
                  /\ new_candidate'.modules[target].prompt = ProposedPrompt
                  /\ new_candidate'.modules[target].version =
                         parent.modules[target].version + 1
        /\ (pc \in {"parent_pass", "mutate", "mutant_pass"}) =>
              candidate_pool' = candidate_pool
      ]_vars

\* C23 witness: a mutant of a mutant, with the stage rewritten now and the stage
\* its parent had rewritten both at version 2
C23_Witness ==
    /\ pc = "mutant_pass"
    /\ candidate_pool[parent_idx + 1].id # 0
    /\ Cardinality({k \in 1..NumStages : new_candidate.modules[k].version = 2}) = 2
    /\ Cardinality({k \in 1..NumStages :
                      candidate_pool[parent_idx + 1].modules[k].version = 2}) = 1

\* C24: the stage targeted in iteration k is the stage at position k mod L of
\* the six-stage sequence (L = 6), whichever parent was selected; so the first L
\* iterations target L different stages, and after L iterations every stage has
\* been targeted.
C24_StagesCycle ==
    /\ [](/\ \/ targeted = 0..(NumStages - 1)
             \/ /\ targeted = {k % NumStages : k \in 1..iteration}
                /\ Cardinality(targeted) = iteration
          /\ iteration >= NumStages => targeted = 0..(NumStages - 1))
    /\ [][ (pc = "while" /\ pc' = "parent_pass") =>
               /\ module_idx' = (iteration + 1) % NumStages
               /\ targeted' = targeted \cup {(iteration + 1) % NumStages}
         ]_vars

\* C24 witness: the sixth iteration targets position 0, the last of the six
\* positions to be targeted
C24_Witness ==
    /\ pc = "parent_pass"
    /\ iteration = NumStages
    /\ module_idx = 0
    /\ targeted = 0..(NumStages - 1)

\* C25: in every reachable state of a run pool index 0 holds the seed candidate,
\* so the selector's fallback index 0 is the seed.
C25_IndexZeroIsSeed ==
    /\ Len(candidate_pool) >= 1
    /\ candidate_pool[1] = SeedCandidate

\* C26: execute_with_traces runs the stages in sequence order and stops at the
\* first failing stage: the traces are those of the first stages of the
\* sequence, in order, only the last trace can be unsuccessful, nothing runs
\* after a failed stage, the returned output is the output of the last
\* successful stage (the input when the first stage fails), and a stage's
\* exception is recorded in its trace, never raised.
C26_StopsAtFirstFailure ==
    /\ [](/\ Len(traces) <= NumStages
          /\ \A k \in 1..Len(traces) :
                /\ traces[k].module_name = module_sequence[k]
                /\ traces[k].success = (module_sequence[k] \notin stage_raises)
                /\ traces[k].error_message = (module_sequence[k] \in stage_raises)
                /\ k < Len(traces) => traces[k].success
          /\ exec_pc = "returned" =>
                /\ \/ Len(traces) = NumStages
                   \/ Len(traces) >= 1 /\ ~ traces[Len(traces)].success
                /\ current = IF \E k \in 1..Len(traces) : traces[k].success
                             THEN module_sequence[
                                    CHOOSE k \in 1..Len(traces) :
                                        /\ traces[k].success
                                        /\ \A j \in 1..Len(traces) :
                                               traces[j].success => j <= k]
                             ELSE 0
          /\ exec_pc \in {Idle, "loop", "returned"})
    /\ [][ (Len(traces) >= 1 /\ ~ traces[Len(traces)].success) =>
               (traces' = traces /\ current' = current) ]_vars

\* C26 witness: the third stage raised; three traces, the output of the second
\* stage returned
C26_Witness ==
    /\ exec_pc = "returned"
    /\ stage_raises = {3, 5}
    /\ Len(traces) = 3
    /\ ~ traces[3].success
    /\ current = 2

\* C27: on a matrix with at least one row and one column the selected parent is
\* dominated by no candidate of the whole pool: no row, of a candidate inside
\* or outside the union of the best sets, is at least as high on every
\* validation example and higher on one.
C27_SelectedUndominatedInPool ==
    (pc = "parent_pass" /\ Len(scores_matrix) >= 1 /\ Len(scores_matrix[1]) >= 1) =>
        LET m == scores_matrix
            cols == 1..Len(m[1])
            p == parent_idx
        IN  ~ \E j \in 0..(Len(m) - 1) :
                /\ \A t \in cols : m[j + 1][t] >= m[p + 1][t]
                /\ \E t \in cols : m[j + 1][t] > m[p + 1][t]

\* C27 witness: the seed attains no column maximum and is outside the union of
\* the best sets; the second candidate was selected
C27_Witness ==
    /\ pc = "parent_pass"
    /\ scores_matrix = << <<0, 0>>, <<1, 1>> >>
    /\ ParetoSet(scores_matrix) = {1}
    /\ parent_idx = 1

\* C28: a prune keeps candidate, parent entry and score row together: every
\* kept candidate is a candidate of the pool before the prune with its
\* instruction texts and versions unchanged, and the matrix row and the parent
\* entry at its new index are the row and the entry it had before.
C28_PruneKeepsRowsAligned ==
    [][ (pc = "decide" /\ pc' = "merge" /\ pre_prune' # <<>>) =>
            LET n == Len(candidate_pool)
                candidateAt(j) == IF j <= n THEN candidate_pool[j] ELSE new_candidate
                rowAt(j) == IF j <= n THEN scores_matrix[j]
                            ELSE appended'[Len(appended')].row
                parentAt(j) == IF j <= n THEN parent_indices[j] ELSE parent_idx
            IN  /\ Len(scores_matrix') = Len(candidate_pool')
                /\ Len(parent_indices') = Len(candidate_pool')
                /\ \A k \in 1..Len(candidate_pool') :
                       \E j \in 1..(n + 1) :
                           /\ candidate_pool'[k] = candidateAt(j)
                           /\ scores_matrix'[k] = rowAt(j)
                           /\ parent_indices'[k] = parentAt(j)
      ]_vars

\* C28 witness: a prune of two candidates with different rows that put the new
\* mutant at index 0 and the seed behind it
C28_Witness ==
    /\ JustPruned
    /\ Len(pre_prune) = 2
    /\ Len(candidate_pool) = 2
    /\ candidate_pool[1].id = 1
    /\ candidate_pool[2].id = 0
    /\ scores_matrix[1] # scores_matrix[2]

\* C29: when optimize returns after at least one iteration, rollouts_used is at
\* least the budget and at most budget - 1 + min(minibatch_size, |training set|)
\* + |validation set|; when no iteration ran, the budget is at most
\* |validation set| and rollouts_used is |validation set|: seeding is done, and
\* may exceed the budget.
C29_FinalRolloutBounds ==
    pc = "done" =>
        IF iteration >= 1
        THEN /\ rollouts_used >= budget
             /\ rollouts_used <=
                    budget - 1 + n_val
                    + (IF minibatch_size < n_train THEN minibatch_size ELSE n_train)
        ELSE /\ budget <= n_val
             /\ rollouts_used = n_val

\* C29 witness: the last iteration started one unit below the budget, drew two
\* examples and accepted its mutant: the upper bound is attained
C29_Witness ==
    /\ pc = "done"
    /\ iteration >= 1
    /\ n_val >= 1
    /\ minibatch_size = 2
    /\ n_train = 2
    /\ rollouts_used = budget - 1 + 2 + n_val

\* C30: when the pipeline's output does not depend on any stage's instruction
\* text, the mutant's minibatch scores equal the parent's, no mutant is ever
\* accepted, the pool stays the single seed, the score matrix keeps one row,
\* every iteration consumes exactly its minibatch's size of the budget, and
\* optimize returns the seed.
C30_InsensitivePipelineKeepsSeed ==
    ~ prompt_sensitive =>
        /\ candidate_pool = <<SeedCandidate>>
        /\ parent_indices = <<None>>
        /\ Len(scores_matrix) = 1
        /\ n_accepted = 0
        /\ pc = "decide" => scores_after = scores_before
        /\ pc \notin {"start", "raised"} => rollouts_used = n_val + sum_minibatch
        /\ pc = "done" => Returned = SeedCandidate

\* C30 witness: optimize returned the seed after two iterations of one example
\* each on a prompt-insensitive pipeline, with one validation example
C30_Witness ==
    /\ ~ prompt_sensitive
    /\ pc = "done"
    /\ n_val = 1
    /\ iteration = 2
    /\ sum_minibatch = 2
    /\ Returned = SeedCandidate

====
